---- MODULE Spec2Model ----
(***************************************************************************)
(* PGRKAM Analytics & Recommendations API (src/main.py, src/schemas.py).   *)
(*                                                                         *)
(* The state is the document store's four collections plus the requests   *)
(* in flight and the last response of the read-only handlers.  Python     *)
(* values are dynamically typed, so every field value carries its type:   *)
(* [t |-> "none" | "int" | "float" | "str" | "list", v |-> payload].       *)
(* A document is a function from the keys it has to such values; a key    *)
(* that is absent is not in its DOMAIN (dict.get then yields the default).*)
(* Scores and rates are floats rounded to 3 decimals; they are kept as    *)
(* integers in thousandths (0.333 is 333).                                *)
(***************************************************************************)
EXTENDS Integers, Sequences, FiniteSets

VARIABLES userprofile, job, applicationoutcome, event, nextId, req, issued, resp

vars == <<userprofile, job, applicationoutcome, event, nextId, req, issued, resp>>

(***************************************************************************)
(* Bounds of the model.                                                    *)
(***************************************************************************)
MaxRequests == 3
MaxJobs == 3
MaxOutcomes == 3
MaxUsers == 2
MaxEvents == 1

(***************************************************************************)
(* Python values.                                                          *)
(***************************************************************************)
None == [t |-> "none", v |-> 0]
IntV(n) == [t |-> "int", v |-> n]
FloatV(n) == [t |-> "float", v |-> n]
StrV(s) == [t |-> "str", v |-> s]
ListV(l) == [t |-> "list", v |-> l]
DictV(d) == [t |-> "dict", v |-> d]

\* dict.get(key, default)
Get(d, k, default) == IF k \in DOMAIN d THEN d[k] ELSE default

\* Python truthiness of a value: None, 0, 0.0, "" and [] are falsy.
Truthy(x) ==
  CASE x.t = "none" -> FALSE
    [] x.t = "int" -> x.v # 0
    [] x.t = "float" -> x.v # 0
    [] x.t = "str" -> x.v # ""
    [] x.t = "list" -> x.v # <<>>
    [] x.t = "dict" -> DOMAIN x.v # {}
    [] OTHER -> TRUE

\* isinstance(x, (int, float))
IsNumber(x) == x.t \in {"int", "float"}

\* isinstance(x, int)
IsInt(x) == x.t = "int"

NoDoc == [t |-> "nodoc"]

(***************************************************************************)
(* The record store (database.py is not part of the sources; the contract *)
(* of spec.md section 6 is modelled).                                      *)
(***************************************************************************)
\* insert(collection, document): stores a new document under a fresh _id.
create_document(coll, data, id) ==
  Append(coll, [k \in DOMAIN data \cup {"_id"} |->
                  IF k = "_id" THEN IntV(id) ELSE data[k]])

\* find(collection, {}, limit): the first `limit` documents.
get_documents(coll, limit) ==
  SubSeq(coll, 1, IF Len(coll) < limit THEN Len(coll) ELSE limit)

\* The documents find_one(filter on user_id) may return: any match, or
\* NoDoc when there is none.
find_one(coll, uid) ==
  IF \E i \in 1..Len(coll) : Get(coll[i], "user_id", None) = uid
    THEN {coll[i] : i \in {j \in 1..Len(coll) : Get(coll[j], "user_id", None) = uid}}
    ELSE {NoDoc}

\* update_one({"_id": id}, {"$set": data}): merges data into that document.
update_one(coll, id, data) ==
  [i \in 1..Len(coll) |->
     IF coll[i]["_id"] = id
       THEN [k \in DOMAIN coll[i] \cup DOMAIN data |->
               IF k \in DOMAIN data THEN data[k] ELSE coll[i][k]]
       ELSE coll[i]]

(***************************************************************************)
(* POST /analytics/user                                                    *)
(***************************************************************************)
Fields == {"user_id", "name", "email", "age", "gender", "location",
           "education", "experience_years", "skills", "channel"}

\* UpsertUserProfileRequest: the types the request model accepts.  It
\* states no range for age or experience_years.
UpsertUserProfileRequest(body) ==
  /\ "user_id" \in DOMAIN body /\ body["user_id"].t = "str"
  /\ \A k \in DOMAIN body \cap {"name", "email", "gender", "location", "education", "channel"} :
       body[k].t \in {"none", "str"}
  /\ "age" \in DOMAIN body => body["age"].t \in {"none", "int"}
  /\ "experience_years" \in DOMAIN body => IsNumber(body["experience_years"]) \/ body["experience_years"].t = "none"
  /\ "skills" \in DOMAIN body => body["skills"].t \in {"none", "list"}

\* payload.model_dump(): every field of the model, None where not given;
\* an int given for the float field is a float afterwards.
model_dump(body) ==
  [k \in Fields |->
     IF k \notin DOMAIN body THEN None
     ELSE IF k = "experience_years" /\ body[k].t = "int" THEN FloatV(body[k].v)
     ELSE body[k]]

\* data = {k: v for k, v in payload.model_dump().items() if v is not None}
NonNullWrong(payload) == payload
NonNull(payload) ==
  [k \in {f \in DOMAIN payload : payload[f] # None} |-> payload[k]]

Clients == {"c1", "c2"}

Idle == [pc |-> "idle", payload |-> NoDoc, existing |-> NoDoc, status |-> 0]

\* The request bodies clients send.
Bodies ==
  { [user_id |-> StrV("u1"), age |-> IntV(30)],
    [user_id |-> StrV("u1"), name |-> StrV("A")],
    [user_id |-> StrV("u1"), name |-> None, age |-> IntV(200)],
    [user_id |-> StrV("u2"), experience_years |-> IntV(-1), skills |-> ListV(<<"py">>)],
    [user_id |-> StrV("u2"), age |-> StrV("old")],
    [name |-> StrV("B")] }

\* The request arrives; the framework validates it (422 when it fails) and
\* the handler starts.
upsert_begin(c, body) ==
  /\ req[c].pc \in {"idle", "done"}
  /\ issued < MaxRequests
  /\ issued' = issued + 1
  /\ req' = [req EXCEPT ![c] =
       IF UpsertUserProfileRequest(body)
         THEN [pc |-> "find", payload |-> model_dump(body), existing |-> NoDoc, status |-> 0]
         ELSE [pc |-> "done", payload |-> NoDoc, existing |-> NoDoc, status |-> 422]]
  /\ UNCHANGED <<userprofile, job, applicationoutcome, event, nextId, resp>>

\* existing = db["userprofile"].find_one({"user_id": payload.user_id})
upsert_find(c) ==
  /\ req[c].pc = "find"
  /\ \E d \in find_one(userprofile, req[c].payload["user_id"]) :
       req' = [req EXCEPT ![c].pc = "write", ![c].existing = d]
  /\ UNCHANGED <<userprofile, job, applicationoutcome, event, nextId, issued, resp>>

\* if existing: update_one(...) else: create_document(...); return ok
upsert_write_atomic(c) ==
  /\ req[c].pc = "write"
  /\ \E d \in find_one(userprofile, req[c].payload["user_id"]) :
       IF d # NoDoc
         THEN /\ userprofile' = update_one(userprofile, d["_id"], NonNull(req[c].payload))
              /\ UNCHANGED nextId
         ELSE /\ userprofile' = create_document(userprofile, NonNull(req[c].payload), nextId)
              /\ nextId' = nextId + 1
  /\ req' = [req EXCEPT ![c].pc = "done", ![c].status = 200]
  /\ UNCHANGED <<job, applicationoutcome, event, issued, resp>>

upsert_write(c) ==
  /\ req[c].pc = "write"
  /\ IF req[c].existing # NoDoc
       THEN /\ userprofile' = update_one(userprofile, req[c].existing["_id"], NonNull(req[c].payload))
            /\ UNCHANGED nextId
       ELSE /\ userprofile' = create_document(userprofile, NonNull(req[c].payload), nextId)
            /\ nextId' = nextId + 1
  /\ req' = [req EXCEPT ![c].pc = "done", ![c].status = 200]
  /\ UNCHANGED <<job, applicationoutcome, event, issued, resp>>

\* except Exception as e: raise HTTPException(status_code=500, ...)
upsert_fail(c) ==
  /\ req[c].pc \in {"find", "write"}
  /\ req' = [req EXCEPT ![c].pc = "done", ![c].status = 500]
  /\ UNCHANGED <<userprofile, job, applicationoutcome, event, nextId, issued, resp>>

\* A client whose upsert starts only when no other upsert is in flight.
upsert_begin_alone(c, body) ==
  /\ \A o \in Clients : req[o].pc \in {"idle", "done"}
  /\ upsert_begin(c, body)

NoResp == [op |-> "none"]

InitStore ==
  /\ userprofile = <<>>
  /\ job = <<>>
  /\ applicationoutcome = <<>>
  /\ event = <<>>
  /\ nextId = 1
  /\ req = [c \in Clients |-> Idle]
  /\ issued = 0
  /\ resp = NoResp

Init == InitStore

Next ==
  \E c \in Clients :
    \/ \E body \in Bodies : upsert_begin(c, body)
    \/ upsert_find(c)
    \/ upsert_write(c)
    \/ upsert_fail(c)

\* Concurrent upserts: the steps of different requests interleave.
Spec == Init /\ [][Next]_vars

NextSeq ==
  \E c \in Clients :
    \/ \E body \in Bodies : upsert_begin_alone(c, body)
    \/ upsert_find(c)
    \/ upsert_write(c)
    \/ upsert_fail(c)

\* Non-overlapping upserts: one request at a time.
SpecSeq == Init /\ [][NextSeq]_vars

(***************************************************************************)
(* GET /recommendations/{user_id}                                          *)
(*                                                                         *)
(* A float is kept as the exact fraction [n, d] in lowest terms.  The     *)
(* handler's floats differ from the exact value by less than 1e-15, which *)
(* changes round(score, 3) only when the exact score lies half-way between *)
(* two thousandths; that needs a union of at least 16 elements.            *)
(***************************************************************************)
RECURSIVE Gcd(_, _)
Gcd(a, b) == IF b = 0 THEN a ELSE Gcd(b, a % b)

Frac(n, d) == [n |-> n \div Gcd(n, d), d |-> d \div Gcd(n, d)]

\* round(x, 3) in thousandths: to nearest, ties to even.
Round3(x) ==
  LET q == (1000 * x.n) \div x.d
      r == (1000 * x.n) % x.d
  IN  IF 2 * r > x.d \/ (2 * r = x.d /\ q % 2 = 1) THEN q + 1 ELSE q

\* set(list): the elements of a list.
RECURSIVE set(_)
set(l) == IF l = <<>> THEN {} ELSE {Head(l)} \cup set(Tail(l))

\* a or []
OrEmpty(a) == IF Truthy(a) THEN a.v ELSE <<>>

jaccard_len(a, b) ==
  LET la == Len(OrEmpty(a))
      lb == Len(OrEmpty(b))
      inter == Cardinality(set(OrEmpty(a)) \cap set(OrEmpty(b)))
  IN  IF la = 0 /\ lb = 0 THEN Frac(0, 1) ELSE Frac(inter, la + lb - inter)

jaccard(a, b) ==
  LET sa == set(OrEmpty(a))
      sb == set(OrEmpty(b))
      inter == Cardinality(sa \cap sb)
      union == Cardinality(sa \cup sb)
  IN  IF sa = {} /\ sb = {} THEN Frac(0, 1)
      ELSE IF union # 0 THEN Frac(inter, union) ELSE Frac(0, 1)

\* The under-experience test of the scoring loop.
UnderExperiencedLeq(user, j) ==
  LET min_exp == Get(j, "min_experience", None)
      exp == Get(user, "experience_years", None)
  IN  IsNumber(min_exp) /\ IsNumber(exp) /\ exp.v <= min_exp.v

UnderExperienced(user, j) ==
  LET min_exp == Get(j, "min_experience", None)
      exp == Get(user, "experience_years", None)
  IN  IsNumber(min_exp) /\ IsNumber(exp) /\ exp.v < min_exp.v

\* One iteration of the scoring loop: the entry appended to `scored`.
ScoreJob(user, j) ==
  LET score == jaccard(Get(user, "skills", ListV(<<>>)), Get(j, "requirements", ListV(<<>>)))
      final == IF UnderExperienced(user, j) THEN Frac(score.n * 8, score.d * 10) ELSE score
  IN  [job_id |-> Get(j, "job_id", None), title |-> Get(j, "title", None),
       score |-> Round3(final)]

Scored(user, jobs) == [i \in 1..Len(jobs) |-> ScoreJob(user, jobs[i])]

\* list.sort(key=score, reverse=True): stable, so an entry goes after every
\* entry whose score is at least its own.
RECURSIVE InsertDesc(_, _)
InsertDesc(sorted, e) ==
  IF sorted = <<>> THEN <<e>>
  ELSE IF Head(sorted).score >= e.score
         THEN <<Head(sorted)>> \o InsertDesc(Tail(sorted), e)
         ELSE <<e>> \o sorted

RECURSIVE InsertDescBefore(_, _)
InsertDescBefore(sorted, e) ==
  IF sorted = <<>> THEN <<e>>
  ELSE IF Head(sorted).score > e.score
         THEN <<Head(sorted)>> \o InsertDescBefore(Tail(sorted), e)
         ELSE <<e>> \o sorted

RECURSIVE SortFrom(_, _, _)
SortFrom(sorted, l, i) ==
  IF i > Len(l) THEN sorted ELSE SortFrom(InsertDesc(sorted, l[i]), l, i + 1)

RECURSIVE SortFromUnstable(_, _, _)
SortFromUnstable(sorted, l, i) ==
  IF i > Len(l) THEN sorted ELSE SortFromUnstable(InsertDescBefore(sorted, l[i]), l, i + 1)

SortDescUnstable(l) == SortFromUnstable(<<>>, l, 1)
SortDesc(l) == SortFrom(<<>>, l, 1)

\* l[:k], Python's slice: a negative k drops the last -k entries.
Slice(l, k) ==
  IF k >= 0 THEN SubSeq(l, 1, IF k < Len(l) THEN k ELSE Len(l))
  ELSE SubSeq(l, 1, IF Len(l) + k > 0 THEN Len(l) + k ELSE 0)

JobScanLimit == 1000
DefaultTopK == 5

\* The try body: what it returns or raises.
recommend_body(user, user_id, top_k, storeOk) ==
  IF ~storeOk THEN [kind |-> "Exception"]
  ELSE IF user = NoDoc THEN [kind |-> "HTTPException", status |-> 404]
  ELSE [kind |-> "return",
        body |-> [user_id |-> user_id,
                  recommendations |->
                    Slice(SortDesc(Scored(user, get_documents(job, JobScanLimit))), top_k)]]

\* except HTTPException: raise / except Exception: raise HTTPException(500)
recommend_except_all(outcome) ==
  IF outcome.kind = "return" THEN [status |-> 200, body |-> outcome.body]
  ELSE [status |-> 500, body |-> NoDoc]

recommend_except(outcome) ==
  CASE outcome.kind = "return" -> [status |-> 200, body |-> outcome.body]
    [] outcome.kind = "HTTPException" -> [status |-> outcome.status, body |-> NoDoc]
    [] OTHER -> [status |-> 500, body |-> NoDoc]

recommend_jobs(user_id, top_k, storeOk) ==
  /\ resp = NoResp
  /\ \E user \in find_one(userprofile, user_id) :
       LET r == recommend_except(recommend_body(user, user_id, top_k, storeOk))
       IN  resp' = [op |-> "recommend", user_id |-> user_id, top_k |-> top_k,
                    storeOk |-> storeOk, status |-> r.status, body |-> r.body]
  /\ UNCHANGED <<userprofile, job, applicationoutcome, event, nextId, req, issued>>

\* Profiles in the store when recommendations are asked for.
UserDocs ==
  { [_id |-> IntV(1), user_id |-> StrV("u1"), skills |-> ListV(<<"py", "sql">>),
     experience_years |-> FloatV(1)],
    [_id |-> IntV(1), user_id |-> StrV("u1"), skills |-> ListV(<<"sql", "py", "py">>),
     experience_years |-> FloatV(3)],
    [_id |-> IntV(1), user_id |-> StrV("u1"), skills |-> ListV(<<"py">>)],
    [_id |-> IntV(1), user_id |-> StrV("u2")],
    [_id |-> IntV(1), user_id |-> StrV("u2"), skills |-> None,
     experience_years |-> StrV("two")],
    [_id |-> IntV(1), user_id |-> StrV("u2"), skills |-> ListV(<<>>),
     experience_years |-> FloatV(5)] }

\* Job postings, written to the store by its owner (the service has no
\* operation that creates them).
JobDocs ==
  { [job_id |-> StrV("j1"), title |-> StrV("T1"), requirements |-> ListV(<<"py", "sql">>),
     min_experience |-> FloatV(3)],
    [job_id |-> StrV("j2"), title |-> StrV("T2"), requirements |-> ListV(<<"py", "java">>)],
    [job_id |-> StrV("j3"), title |-> StrV("T3"), requirements |-> ListV(<<"sql", "py", "py">>),
     min_experience |-> IntV(1)],
    [job_id |-> StrV("j4"), min_experience |-> None],
    [job_id |-> StrV("j5"), title |-> StrV("T5"), requirements |-> ListV(<<>>),
     min_experience |-> StrV("3")],
    [job_id |-> StrV("j6"), title |-> StrV("T6"), requirements |-> ListV(<<"java", "go", "py">>),
     min_experience |-> FloatV(5)] }

UserIds == {StrV("u1"), StrV("u2"), StrV("u9")}

TopKs == {-1, 0, 2, DefaultTopK}

insert_job(j) ==
  /\ resp = NoResp
  /\ Len(job) < MaxJobs
  /\ job' = Append(job, j)
  /\ UNCHANGED <<userprofile, applicationoutcome, event, nextId, req, issued, resp>>

\* The response has gone to the caller; the next request can be served.
deliver ==
  /\ resp # NoResp
  /\ resp' = NoResp
  /\ UNCHANGED <<userprofile, job, applicationoutcome, event, nextId, req, issued>>

InitRecommend ==
  /\ userprofile \in {<<>>} \cup {<<u>> : u \in UserDocs}
  /\ job = <<>>
  /\ applicationoutcome = <<>>
  /\ event = <<>>
  /\ nextId = 2
  /\ req = [c \in Clients |-> Idle]
  /\ issued = 0
  /\ resp = NoResp

NextRecommend ==
  \/ \E j \in JobDocs : insert_job(j)
  \/ \E u \in UserIds, k \in TopKs, ok \in BOOLEAN : recommend_jobs(u, k, ok)
  \/ deliver

SpecRecommend == InitRecommend /\ [][NextRecommend]_vars

(***************************************************************************)
(* GET /analytics/success-rate/{user_id}                                   *)
(*                                                                         *)
(* An outcome label is a string value whose v is its sequence of          *)
(* characters, so that lower() is computed and not assumed.                *)
(***************************************************************************)
UpperChars == <<"S", "U", "C", "E", "F", "A", "I", "L", "R", "N">>
LowerChars == <<"s", "u", "c", "e", "f", "a", "i", "l", "r", "n">>

\* str(x): a string is itself, None is "None".
str(x) ==
  CASE x.t = "str" -> x.v
    [] x.t = "none" -> <<"N", "o", "n", "e">>
    [] OTHER -> <<"?">>

lower_char(c) ==
  IF \E i \in 1..Len(UpperChars) : UpperChars[i] = c
    THEN LowerChars[CHOOSE i \in 1..Len(UpperChars) : UpperChars[i] = c]
    ELSE c

lower_identity(chars) == chars
lower(chars) == [i \in 1..Len(chars) |-> lower_char(chars[i])]

\* db["applicationoutcome"].find({"user_id": user_id}): every match.
find(coll, uid) ==
  SelectSeq(coll, LAMBDA d : Get(d, "user_id", None) = uid)

RECURSIVE CountSuccess(_)
CountSuccess(outcomes) ==
  IF outcomes = <<>> THEN 0
  ELSE (IF lower(str(Get(Head(outcomes), "outcome", None))) = <<"s", "u", "c", "c", "e", "s", "s">>
          THEN 1 ELSE 0) + CountSuccess(Tail(outcomes))

success_rate_body(user_id, storeOk) ==
  IF ~storeOk THEN [kind |-> "Exception"]
  ELSE LET outcomes == find(applicationoutcome, user_id)
           total == Len(outcomes)
           success == CountSuccess(outcomes)
           rate == IF total # 0 THEN Frac(success, total) ELSE Frac(0, 1)
       IN  [kind |-> "return",
            body |-> [user_id |-> user_id, total |-> total, success |-> success,
                      rate |-> Round3(rate)]]

\* except Exception as e: raise HTTPException(status_code=500, ...)
handle_except(outcome) ==
  IF outcome.kind = "return" THEN [status |-> 200, body |-> outcome.body]
  ELSE [status |-> 500, body |-> NoDoc]

success_rate(user_id, storeOk) ==
  /\ resp = NoResp
  /\ LET r == handle_except(success_rate_body(user_id, storeOk))
     IN  resp' = [op |-> "success_rate", user_id |-> user_id, storeOk |-> storeOk,
                  status |-> r.status, body |-> r.body]
  /\ UNCHANGED <<userprofile, job, applicationoutcome, event, nextId, req, issued>>

Chars(w) ==
  CASE w = "success" -> <<"s", "u", "c", "c", "e", "s", "s">>
    [] w = "SUCCESS" -> <<"S", "U", "C", "C", "E", "S", "S">>
    [] w = "Success" -> <<"S", "u", "c", "c", "e", "s", "s">>
    [] w = "failure" -> <<"f", "a", "i", "l", "u", "r", "e">>
    [] OTHER -> <<>>

\* Application outcomes, written to the store by its owner.
OutcomeDocs ==
  { [user_id |-> StrV("u1"), job_id |-> StrV("j1"), outcome |-> StrV(Chars("success"))],
    [user_id |-> StrV("u1"), job_id |-> StrV("j2"), outcome |-> StrV(Chars("SUCCESS"))],
    [user_id |-> StrV("u1"), job_id |-> StrV("j3"), outcome |-> StrV(Chars("failure"))],
    [user_id |-> StrV("u1"), job_id |-> StrV("j4")],
    [user_id |-> StrV("u2"), job_id |-> StrV("j1"), outcome |-> StrV(Chars("Success"))],
    [user_id |-> StrV("u2"), job_id |-> StrV("j2"), outcome |-> None] }

insert_outcome(o) ==
  /\ resp = NoResp
  /\ Len(applicationoutcome) < MaxOutcomes
  /\ applicationoutcome' = Append(applicationoutcome, o)
  /\ UNCHANGED <<userprofile, job, event, nextId, req, issued, resp>>

NextRate ==
  \/ \E o \in OutcomeDocs : insert_outcome(o)
  \/ \E u \in UserIds, ok \in BOOLEAN : success_rate(u, ok)
  \/ deliver

\* No profile is stored: every user_id is one without a UserProfile.
SpecRate == InitStore /\ [][NextRate]_vars

(***************************************************************************)
(* POST /analytics/track and GET /analytics/overview                       *)
(***************************************************************************)
EventFields == {"user_id", "event_type", "page", "service", "properties", "device"}

EmptyDict == [k \in {} |-> 0]

\* TrackEventRequest: event_type is required; properties defaults to {}.
TrackEventRequest(body) ==
  /\ "event_type" \in DOMAIN body /\ body["event_type"].t = "str"
  /\ \A k \in DOMAIN body \cap {"user_id", "page", "service", "device"} :
       body[k].t \in {"none", "str"}
  /\ "properties" \in DOMAIN body => body["properties"].t = "dict"

\* payload.model_dump(), then event_doc["type"] = event_doc.pop("event_type")
event_doc(body) ==
  [k \in (EventFields \ {"event_type"}) \cup {"type"} |->
     IF k = "type" THEN body["event_type"]
     ELSE IF k \in DOMAIN body THEN body[k]
     ELSE IF k = "properties" THEN DictV(EmptyDict)
     ELSE None]

track_event(body, storeOk) ==
  /\ resp = NoResp
  /\ Len(event) < MaxEvents
  /\ IF ~TrackEventRequest(body)
       THEN /\ resp' = [op |-> "track", status |-> 422]
            /\ UNCHANGED <<event, nextId>>
       ELSE IF ~storeOk
         THEN /\ resp' = [op |-> "track", status |-> 500]
              /\ UNCHANGED <<event, nextId>>
         ELSE /\ event' = create_document(event, event_doc(body), nextId)
              /\ nextId' = nextId + 1
              /\ resp' = [op |-> "track", status |-> 200]
  /\ UNCHANGED <<userprofile, job, applicationoutcome, req, issued>>

\* x or y
Or(x, y) == IF Truthy(x) THEN x ELSE y

\* counts[key] = counts.get(key, 0) + 1
Incr(counts, key) ==
  [k \in DOMAIN counts \cup {key} |-> IF k = key THEN Get(counts, key, 0) + 1 ELSE counts[k]]

\* (e.get("properties", {}) or {}).get("channel") or e.get("channel")
ChannelOf(e) ==
  LET props == Or(Get(e, "properties", DictV(EmptyDict)), DictV(EmptyDict))
  IN  Or(Get(props.v, "channel", None), Get(e, "channel", None))

\* The loop over events: counts of one derived value per event.
RECURSIVE channel_counts(_, _, _)
channel_counts(counts, events, i) ==
  IF i > Len(events) THEN counts
  ELSE channel_counts(IF Truthy(ChannelOf(events[i])) THEN Incr(counts, ChannelOf(events[i])) ELSE counts,
                      events, i + 1)

\* The tally of one field over documents: g = u.get(key); if g: count it.
RECURSIVE tally(_, _, _, _)
tally(counts, docs, key, i) ==
  IF i > Len(docs) THEN counts
  ELSE tally(IF Truthy(Get(docs[i], key, None)) THEN Incr(counts, Get(docs[i], key, None)) ELSE counts,
             docs, key, i + 1)

Buckets == {"<18", "18-24", "25-34", "35-44", "45+"}

\* The if / elif chain over age.
age_bucket_leq(age) ==
  IF age <= 18 THEN "<18"
  ELSE IF age <= 25 THEN "18-24"
  ELSE IF age <= 35 THEN "25-34"
  ELSE IF age <= 45 THEN "35-44"
  ELSE "45+"

age_bucket(age) ==
  IF age < 18 THEN "<18"
  ELSE IF age < 25 THEN "18-24"
  ELSE IF age < 35 THEN "25-34"
  ELSE IF age < 45 THEN "35-44"
  ELSE "45+"

RECURSIVE age_buckets(_, _, _)
age_buckets(counts, users, i) ==
  IF i > Len(users) THEN counts
  ELSE LET age == Get(users[i], "age", None)
       IN  age_buckets(IF IsInt(age) THEN Incr(counts, age_bucket(age.v)) ELSE counts,
                       users, i + 1)

DefaultLimit == 50

overview_body(limit, storeOk) ==
  IF ~storeOk THEN [kind |-> "Exception"]
  ELSE LET events == get_documents(event, limit)
           users == get_documents(userprofile, limit)
       IN  [kind |-> "return",
            body |-> [channels |-> channel_counts(EmptyDict, events, 1),
                      pages |-> tally(EmptyDict, events, "page", 1),
                      demographics |->
                        [gender |-> tally(EmptyDict, users, "gender", 1),
                         education |-> tally(EmptyDict, users, "education", 1),
                         location |-> tally(EmptyDict, users, "location", 1),
                         age_buckets |-> age_buckets([b \in Buckets |-> 0], users, 1)],
                      samples |-> [events |-> Len(events), users |-> Len(users)]]]

analytics_overview(limit, storeOk) ==
  /\ resp = NoResp
  /\ LET r == handle_except(overview_body(limit, storeOk))
     IN  resp' = [op |-> "overview", limit |-> limit, storeOk |-> storeOk,
                  status |-> r.status, body |-> r.body]
  /\ UNCHANGED <<userprofile, job, applicationoutcome, event, nextId, req, issued>>

\* Profiles in the store when the overview is asked for; ages at and
\* around every bucket boundary, absent, None, a float and a string.
AgeDocs ==
  { [user_id |-> StrV("a"), age |-> IntV(17), gender |-> StrV("f")],
    [user_id |-> StrV("b"), age |-> IntV(18), gender |-> StrV("m")],
    [user_id |-> StrV("c"), age |-> IntV(24), location |-> StrV("Mohali")],
    [user_id |-> StrV("d"), age |-> IntV(25), education |-> StrV("BSc")],
    [user_id |-> StrV("e"), age |-> IntV(34)],
    [user_id |-> StrV("f"), age |-> IntV(35), gender |-> StrV("")],
    [user_id |-> StrV("g"), age |-> IntV(44)],
    [user_id |-> StrV("h"), age |-> IntV(45)],
    [user_id |-> StrV("i"), gender |-> StrV("f")],
    [user_id |-> StrV("j"), age |-> None],
    [user_id |-> StrV("k"), age |-> FloatV(30)],
    [user_id |-> StrV("l"), age |-> StrV("30")] }

EventBodies ==
  { [event_type |-> StrV("page_view"), page |-> StrV("home"),
     properties |-> DictV([channel |-> StrV("radio")])],
    [event_type |-> StrV("click"), user_id |-> StrV("a")],
    [page |-> StrV("jobs")] }

Limits == {1, DefaultLimit}

insert_profile(u) ==
  /\ resp = NoResp
  /\ Len(userprofile) < MaxUsers
  /\ userprofile' = create_document(userprofile, u, nextId)
  /\ nextId' = nextId + 1
  /\ UNCHANGED <<job, applicationoutcome, event, req, issued, resp>>

NextOverview ==
  \/ \E u \in AgeDocs : insert_profile(u)
  \/ \E body \in EventBodies, ok \in BOOLEAN : track_event(body, ok)
  \/ \E limit \in Limits, ok \in BOOLEAN : analytics_overview(limit, ok)
  \/ deliver

SpecOverview == InitStore /\ [][NextOverview]_vars

(***************************************************************************)
(* Claims about the profile upsert.                                        *)
(***************************************************************************)
HasProfile(coll, uid) ==
  \E i \in 1..Len(coll) : Get(coll[i], "user_id", None) = uid

CountProfiles(coll, uid) ==
  Cardinality({i \in 1..Len(coll) : Get(coll[i], "user_id", None) = uid})

\* The step in which client c's upsert writes and returns ok.
WriteStep(c) == req[c].pc = "write" /\ req'[c].pc = "done" /\ req'[c].status = 200

\* C1: with non-overlapping upserts, a call for a user_id that already has a
\* stored profile adds no record, leaves every other record alone, sets in
\* the existing record exactly the fields that are non-null in the call and
\* keeps every field that is null or omitted in the call as it was stored.
C1_UpsertMerge ==
  [][\A c \in Clients :
       (WriteStep(c) /\ HasProfile(userprofile, req[c].payload["user_id"])) =>
         /\ Len(userprofile') = Len(userprofile)
         /\ \A i \in 1..Len(userprofile) :
              IF Get(userprofile[i], "user_id", None) = req[c].payload["user_id"]
                THEN \A k \in Fields :
                       IF req[c].payload[k] # None
                         THEN k \in DOMAIN userprofile'[i]
                              /\ userprofile'[i][k] = req[c].payload[k]
                         ELSE /\ (k \in DOMAIN userprofile'[i]) = (k \in DOMAIN userprofile[i])
                              /\ k \in DOMAIN userprofile[i] =>
                                   userprofile'[i][k] = userprofile[i][k]
                ELSE userprofile'[i] = userprofile[i]]_vars

\* {user_id: u1, age: 30} then {user_id: u1, name: A} has been merged into
\* the one record of u1.
C1_Witness ==
  /\ \E c \in Clients :
       /\ req[c].pc = "done" /\ req[c].status = 200
       /\ req[c].existing # NoDoc
       /\ req[c].payload["name"] = StrV("A") /\ req[c].payload["age"] = None
  /\ Len(userprofile) = 1
  /\ Get(userprofile[1], "age", None) = IntV(30)
  /\ Get(userprofile[1], "name", None) = StrV("A")

\* C4: two upserts for the same user_id that both found no existing record
\* and both wrote have left two records with that user_id: nothing in the
\* handler excludes the duplicate.
C4_RaceDuplicates ==
  \A c \in Clients : \A o \in Clients \ {c} :
    ( /\ req[c].pc = "done" /\ req[c].status = 200 /\ req[c].existing = NoDoc
      /\ req[o].pc = "done" /\ req[o].status = 200 /\ req[o].existing = NoDoc
      /\ req[c].payload["user_id"] = req[o].payload["user_id"] )
    => CountProfiles(userprofile, req[c].payload["user_id"]) >= 2

\* Both requests observed no record, both inserted: two records of u1.
C4_Witness ==
  /\ \A c \in Clients :
       /\ req[c].pc = "done" /\ req[c].status = 200 /\ req[c].existing = NoDoc
       /\ req[c].payload["user_id"] = StrV("u1")
  /\ CountProfiles(userprofile, StrV("u1")) = 2

\* C8: no profile with an age outside 0..120 or a negative experience_years
\* is ever stored through the upsert operation.
C8_RangeValidated ==
  \A i \in 1..Len(userprofile) :
    /\ Get(userprofile[i], "age", None).t = "int" =>
         (Get(userprofile[i], "age", None).v >= 0 /\ Get(userprofile[i], "age", None).v <= 120)
    /\ IsNumber(Get(userprofile[i], "experience_years", None)) =>
         Get(userprofile[i], "experience_years", None).v >= 0

(***************************************************************************)
(* Claims about the recommendation engine.                                 *)
(***************************************************************************)
RecommendOk == resp.op = "recommend" /\ resp.status = 200

Recs == resp.body.recommendations

\* The elements of a list value; an absent or None list has none.
Elems(a) == IF a.t = "list" THEN {a.v[i] : i \in 1..Len(a.v)} ELSE {}

\* The skill lists and requirement lists of the documents of the model.
SkillValues ==
  {Get(u, "skills", None) : u \in UserDocs} \cup {Get(j, "requirements", None) : j \in JobDocs}

\* C2: a returned list has at most top_k entries and at most as many as
\* jobs were scanned, and top_k = 0 yields the empty list, for every top_k
\* the operation accepts.
C2_LengthBound ==
  RecommendOk =>
    /\ Len(Recs) <= resp.top_k
    /\ Len(Recs) <= Len(get_documents(job, JobScanLimit))
    /\ Len(get_documents(job, JobScanLimit)) <= JobScanLimit
    /\ resp.top_k = 0 => Recs = <<>>

\* C3: a request for a user_id without a stored profile, the store lookup
\* succeeding, ends in 404: neither in 500 nor in a result.
C3_NotFound ==
  (resp.op = "recommend" /\ resp.storeOk /\ ~HasProfile(userprofile, resp.user_id))
    => (resp.status = 404 /\ resp.body = NoDoc)

C3_Witness ==
  /\ resp.op = "recommend" /\ resp.storeOk
  /\ ~HasProfile(userprofile, resp.user_id)
  /\ userprofile # <<>>
  /\ resp.status = 404

\* C5: for the skills a of every stored user and the requirements b of every
\* stored job, jaccard(a, b) is |A n B| / |A u B| of their element sets, 0.0
\* when both are empty, equal to jaccard(b, a), and the same for every list
\* with the same elements as a (reordered, duplicated).
C5_Jaccard ==
  \A i \in 1..Len(userprofile) : \A k \in 1..Len(job) :
    LET a == Get(userprofile[i], "skills", ListV(<<>>))
        b == Get(job[k], "requirements", ListV(<<>>))
        A == Elems(a)
        B == Elems(b)
        x == jaccard(a, b)
    IN  /\ x.d > 0
        /\ IF A \cup B = {} THEN x.n = 0
           ELSE x.n * Cardinality(A \cup B) = x.d * Cardinality(A \cap B)
        /\ jaccard(b, a) = x
        /\ \A a2 \in SkillValues : Elems(a2) = A => jaccard(a2, b) = x
        /\ \A b2 \in SkillValues : Elems(b2) = B => jaccard(a, b2) = x

\* The user with skills [sql, py, py] got the score 1.0 for the job that
\* requires [py, sql].
C5_Witness ==
  /\ RecommendOk
  /\ Len(userprofile) = 1
  /\ Get(userprofile[1], "skills", None) = ListV(<<"sql", "py", "py">>)
  /\ \E i \in 1..Len(Recs) : Recs[i].job_id = StrV("j1") /\ Recs[i].score = 1000

\* The penalty condition, as the claim states it.
PenaltyApplies(user, j) ==
  /\ "min_experience" \in DOMAIN j /\ j["min_experience"].t \in {"int", "float"}
  /\ "experience_years" \in DOMAIN user /\ user["experience_years"].t \in {"int", "float"}
  /\ user["experience_years"].v < j["min_experience"].v

ExpectedScore(user, j) ==
  LET sim == jaccard(Get(user, "skills", ListV(<<>>)), Get(j, "requirements", ListV(<<>>)))
  IN  IF PenaltyApplies(user, j) THEN Round3([n |-> 8 * sim.n, d |-> 10 * sim.d])
      ELSE Round3(sim)

\* C6: every returned entry is the entry of a scanned job, and its score is
\* the similarity times 0.8 exactly when the job's min_experience and the
\* user's experience_years are both numbers and the latter is strictly
\* smaller; otherwise it is the unpenalised similarity (rounded to 3 places).
C6_Penalty ==
  RecommendOk =>
    \E user \in find_one(userprofile, resp.user_id) :
      \A i \in 1..Len(Recs) :
        /\ \E k \in 1..Len(job) : Get(job[k], "job_id", None) = Recs[i].job_id
        /\ \A k \in 1..Len(job) :
             Get(job[k], "job_id", None) = Recs[i].job_id =>
               Recs[i].score = ExpectedScore(user, job[k])

\* One response holds a job scored at the boundary (experience 3, minimum
\* 3: unpenalised 1.0), and one without min_experience.
C6_Witness ==
  /\ RecommendOk
  /\ \E i \in 1..Len(Recs) : Recs[i].job_id = StrV("j1") /\ Recs[i].score = 1000
  /\ \E i \in 1..Len(Recs) : Recs[i].job_id = StrV("j2") /\ Recs[i].score = 333
  /\ \E i \in 1..Len(Recs) : Recs[i].job_id = StrV("j6") /\ Recs[i].score = 200

RECURSIVE IsSubseq(_, _)
IsSubseq(a, b) ==
  IF a = <<>> THEN TRUE
  ELSE IF b = <<>> THEN FALSE
  ELSE IF Head(a) = Head(b) THEN IsSubseq(Tail(a), Tail(b))
  ELSE IsSubseq(a, Tail(b))

RECURSIVE WithScore(_, _)
WithScore(l, sc) ==
  IF l = <<>> THEN <<>>
  ELSE IF Head(l).score = sc THEN <<Head(l)>> \o WithScore(Tail(l), sc)
  ELSE WithScore(Tail(l), sc)

\* C7: the returned entries are in non-increasing order of score, and those
\* of equal score are in the order in which the scan produced them.
C7_SortedStable ==
  RecommendOk =>
    /\ \A i \in 1..Len(Recs) : \A k \in 1..Len(Recs) :
         i < k => Recs[i].score >= Recs[k].score
    /\ \E user \in find_one(userprofile, resp.user_id) :
         \A i \in 1..Len(Recs) :
           IsSubseq(WithScore(Recs, Recs[i].score),
                    WithScore(Scored(user, get_documents(job, JobScanLimit)), Recs[i].score))

\* A strictly better job first, then two different jobs of equal score.
C7_Witness ==
  /\ RecommendOk
  /\ Len(Recs) = 3
  /\ Recs[1].score > Recs[2].score
  /\ Recs[2].score = Recs[3].score
  /\ Recs[2].job_id # Recs[3].job_id
  /\ Get(job[1], "job_id", None) = Recs[2].job_id
  /\ Get(job[3], "job_id", None) = Recs[1].job_id

(***************************************************************************)
(* Claims about the success rate.                                          *)
(***************************************************************************)
\* The labels that equal "success" when case is ignored.
IsSuccessLabel(x) ==
  /\ x.t = "str" /\ Len(x.v) = 7
  /\ \A i \in 1..7 : x.v[i] \in {Chars("success")[i], Chars("SUCCESS")[i]}

OutcomesOf(uid) ==
  {i \in 1..Len(applicationoutcome) : Get(applicationoutcome[i], "user_id", None) = uid}

SuccessesOf(uid) ==
  {i \in OutcomesOf(uid) : IsSuccessLabel(Get(applicationoutcome[i], "outcome", None))}

\* What C9 states apart from the value of rate.
RateCounts ==
  /\ resp.status = 200
  /\ resp.body.user_id = resp.user_id
  /\ resp.body.total = Cardinality(OutcomesOf(resp.user_id))
  /\ resp.body.success = Cardinality(SuccessesOf(resp.user_id))
  /\ 0 <= resp.body.success /\ resp.body.success <= resp.body.total
  /\ resp.body.total = 0 => (resp.body.success = 0 /\ resp.body.rate = 0)

\* C9 as stated: the counts, and rate = success / total.
C9_RateExact ==
  (resp.op = "success_rate" /\ resp.storeOk) =>
    /\ RateCounts
    /\ resp.body.total # 0 => resp.body.rate * resp.body.total = 1000 * resp.body.success

\* C9, amended: the counts, and rate = success / total rounded to 3 decimal
\* places (the thousandth nearest to success / total); never a not-found.
C9_RateRounded ==
  (resp.op = "success_rate" /\ resp.storeOk) =>
    /\ RateCounts
    /\ resp.body.total # 0 =>
         LET diff == resp.body.rate * resp.body.total - 1000 * resp.body.success
         IN  2 * diff <= resp.body.total /\ -2 * diff <= resp.body.total

\* Three outcomes of u1, the one success spelled SUCCESS: rate 0.333.
C9_Witness ==
  /\ resp.op = "success_rate" /\ resp.storeOk /\ resp.status = 200
  /\ userprofile = <<>>
  /\ resp.body.total = 3 /\ resp.body.success = 1 /\ resp.body.rate = 333
  /\ \E i \in SuccessesOf(resp.user_id) : applicationoutcome[i]["outcome"] = StrV(Chars("SUCCESS"))

(***************************************************************************)
(* Claims about the overview.                                              *)
(***************************************************************************)
\* The users the overview examined: the first `limit` of the collection.
Examined ==
  1..(IF Len(userprofile) < resp.limit THEN Len(userprofile) ELSE resp.limit)

IntAged == {i \in Examined : "age" \in DOMAIN userprofile[i] /\ userprofile[i]["age"].t = "int"}

\* The five ranges, as the claim states them.
InBucket(b, n) ==
  CASE b = "<18" -> n < 18
    [] b = "18-24" -> 18 <= n /\ n < 25
    [] b = "25-34" -> 25 <= n /\ n < 35
    [] b = "35-44" -> 35 <= n /\ n < 45
    [] b = "45+" -> 45 <= n

RECURSIVE SumOver(_, _)
SumOver(f, S) ==
  IF S = {} THEN 0 ELSE LET x == CHOOSE y \in S : TRUE IN f[x] + SumOver(f, S \ {x})

\* C10: every bucket counts the examined users whose age is an integer in
\* its half-open range, exactly one bucket takes each of them, users whose
\* age is absent or no integer are in none, and the overview does not fail.
C10_AgeBuckets ==
  (resp.op = "overview" /\ resp.storeOk) =>
    /\ resp.status = 200
    /\ resp.body.samples.users = Cardinality(Examined)
    /\ DOMAIN resp.body.demographics.age_buckets = Buckets
    /\ \A b \in Buckets :
         resp.body.demographics.age_buckets[b] =
           Cardinality({i \in IntAged : InBucket(b, userprofile[i]["age"].v)})
    /\ \A i \in IntAged :
         Cardinality({b \in Buckets : InBucket(b, userprofile[i]["age"].v)}) = 1
    /\ SumOver(resp.body.demographics.age_buckets, Buckets) = Cardinality(IntAged)

\* Users of age 18 and of a float age were examined: one in 18-24, none
\* elsewhere.
C10_Witness ==
  /\ resp.op = "overview" /\ resp.storeOk /\ resp.status = 200
  /\ Len(userprofile) = 2 /\ resp.limit = DefaultLimit
  /\ Get(userprofile[1], "age", None) = IntV(18)
  /\ Get(userprofile[2], "age", None) = FloatV(30)
  /\ resp.body.demographics.age_buckets["18-24"] = 1
  /\ resp.body.demographics.age_buckets["<18"] = 0
  /\ resp.body.demographics.age_buckets["25-34"] = 0

====
